---------------------------- MODULE Spec2Model ----------------------------
(***************************************************************************)
(* A model of src/index.ts, the react-admin data provider for the Strapi   *)
(* v4 REST API: the Strapi -> react-admin converters, the filter           *)
(* translator, the write-path converter and the provider methods.          *)
(*                                                                         *)
(* JavaScript values are tagged records: t is the type, and the payload is *)
(* held in a field of the type's own (s, n, b, a, o, f).  An object is the *)
(* sequence of its <<key, value>> pairs in insertion order, which is the   *)
(* order Object.keys and for-in visit them in.                             *)
(***************************************************************************)
EXTENDS Integers, Sequences, FiniteSets, TLC

VARIABLES
  op,         \* the provider method called last, with ".then" once its callback ran
  input,      \* the params the method was called with
  request,    \* the request handed to httpClient
  response,   \* the json the backend answered with
  output,     \* what the method's promise resolved to
  inflight,   \* the promises of the sub-requests of a batch method, by position
  aggregate,  \* the promise Promise.all returned
  server,     \* the ids the backend has applied a batch sub-request to
  heap,       \* the objects the caller holds, by reference
  calls       \* the provider calls running concurrently, by caller

vars ==
  <<op, input, request, response, output, inflight, aggregate, server, heap, calls>>

----------------------------------------------------------------------------
(* JavaScript values *)

Undef == [t |-> "undefined"]
Null == [t |-> "null"]
Str(s) == [t |-> "string", s |-> s]
Num(n) == [t |-> "number", n |-> n]
Bool(b) == [t |-> "boolean", b |-> b]
Arr(s) == [t |-> "array", a |-> s]
Obj(pairs) == [t |-> "object", o |-> pairs]
File(name) == [t |-> "File", f |-> name]

IsArray(x) == x.t = "array"
IsObj(x) == x.t = "object"
IsFile(x) == x.t = "File"

IsScalar(x) == x.t \in {"string", "number", "boolean", "null"}

\* typeof x === "object": objects, arrays, null and File instances
TypeofObject(x) == x.t \in {"object", "array", "null", "File"}

\* the truthiness JavaScript's if, !, && and ?: apply to a value
Truthy(x) ==
  CASE x.t = "undefined" -> FALSE
    [] x.t = "null" -> FALSE
    [] x.t = "string" -> x.s # ""
    [] x.t = "number" -> x.n # 0
    [] x.t = "boolean" -> x.b
    [] OTHER -> TRUE

\* the decimal text of a small index, as a property name
Digits == <<"0", "1", "2", "3", "4", "5", "6", "7", "8", "9">>
RECURSIVE ToStr(_)
ToStr(n) == IF n < 10 THEN Digits[n + 1] ELSE ToStr(n \div 10) \o Digits[(n % 10) + 1]

\* the own enumerable properties of a value, as <<key, value>> pairs, in the
\* order Object.keys lists them
Pairs(x) ==
  CASE x.t = "object" -> x.o
    [] x.t = "array" -> [i \in 1..Len(x.a) |-> <<ToStr(i - 1), x.a[i]>>]
    [] x.t = "string" -> [i \in 1..Len(x.s) |-> <<ToStr(i - 1), Str(SubSeq(x.s, i, i))>>]
    [] OTHER -> <<>>

Keys(x) == [i \in 1..Len(Pairs(x)) |-> Pairs(x)[i][1]]
KeySet(x) == {Pairs(x)[i][1] : i \in 1..Len(Pairs(x))}
HasOwn(x, k) == k \in KeySet(x)

\* x?.[k]: undefined on undefined and null, and for a property x does not have
Get(x, k) ==
  IF HasOwn(x, k)
  THEN LET i == CHOOSE j \in 1..Len(Pairs(x)) : Pairs(x)[j][1] = k IN Pairs(x)[i][2]
  ELSE Undef

\* o[k] = val on an object: an existing key keeps its place, a new one is appended
Set(o, k, val) ==
  IF HasOwn(o, k)
  THEN Obj([i \in 1..Len(o.o) |-> IF o.o[i][1] = k THEN <<k, val>> ELSE o.o[i]])
  ELSE Obj(Append(o.o, <<k, val>>))

RECURSIVE SetAll(_, _)
SetAll(o, pairs) ==
  IF pairs = <<>> THEN o
  ELSE SetAll(Set(o, pairs[1][1], pairs[1][2]), Tail(pairs))

\* {...o, ...x}
Spread(o, x) == SetAll(o, Pairs(x))

\* array[0]
First(a) == IF IsArray(a) /\ Len(a.a) > 0 THEN a.a[1] ELSE Undef

----------------------------------------------------------------------------
(* Strapi -> react-admin *)

RECURSIVE strapiArrayToRa(_)
RECURSIVE strapiObjectToRa(_)
RECURSIVE strapiAttributesToRa(_)
RECURSIVE AttributesLoop(_, _)

\* { id: image.id, ...image.attributes }
ImageToRa(image) == Spread(Obj(<< <<"id", Get(image, "id")>> >>), Get(image, "attributes"))

IdOf(object) == Get(object, "id")

\* a faulty FirstMime: the marker of any element, not of the first alone
RECURSIVE SomeMime(_)
SomeMime(items) ==
  IF items = <<>> THEN Undef
  ELSE IF Truthy(Get(Get(items[1], "attributes"), "mime"))
       THEN Get(Get(items[1], "attributes"), "mime")
       ELSE SomeMime(Tail(items))
AnyMime(a) == IF IsArray(Get(a, "data")) THEN SomeMime(Get(a, "data").a) ELSE Undef

\* attributes[key]?.data[0]?.attributes?.mime
FirstMime(a) == Get(Get(First(Get(a, "data")), "attributes"), "mime")

\* attributes[key]?.data?.attributes?.mime
DataMime(a) == Get(Get(Get(a, "data"), "attributes"), "mime")

\* the value the forEach body leaves in newAttributes[key] for a = attributes[key]
AttributeToRa(a) ==
  LET n1 == IF IsArray(a) THEN strapiArrayToRa(a) ELSE a
  IN  IF IsArray(Get(a, "data")) /\ Truthy(FirstMime(a))
      THEN Arr([i \in 1..Len(Get(a, "data").a) |-> ImageToRa(Get(a, "data").a[i])])
      ELSE
        LET n2 == IF IsArray(Get(a, "data")) /\ ~Truthy(FirstMime(a))
                  THEN Arr([i \in 1..Len(Get(a, "data").a) |-> IdOf(Get(a, "data").a[i])]) ELSE n1
            n3 == IF Truthy(Get(Get(a, "data"), "id")) /\ ~Truthy(DataMime(a))
                  THEN Get(Get(a, "data"), "id") ELSE n2
            n4 == IF Get(a, "data").t = "null" THEN Str("") ELSE n3
            n5 == IF Truthy(Get(a, "id")) THEN strapiAttributesToRa(n4) ELSE n4
            n6 == IF Truthy(DataMime(a)) THEN strapiObjectToRa(Get(n5, "data")) ELSE n5
        IN  n6

AttributesLoop(pairs, newAttributes) ==
  IF pairs = <<>> THEN newAttributes
  ELSE AttributesLoop(Tail(pairs),
                      Set(newAttributes, pairs[1][1], AttributeToRa(pairs[1][2])))

strapiAttributesToRa(attributes) == AttributesLoop(Pairs(attributes), Obj(<<>>))

strapiObjectToRa(object) ==
  Spread(Obj(<< <<"id", Get(object, "id")>> >>), strapiAttributesToRa(Get(object, "attributes")))

strapiArrayToRa(array) ==
  IF Truthy(Get(First(array), "attributes"))
  THEN Arr([i \in 1..Len(array.a) |-> strapiObjectToRa(array.a[i])])
  ELSE Arr([i \in 1..Len(array.a) |-> strapiAttributesToRa(array.a[i])])

----------------------------------------------------------------------------
(* react-admin filters -> Strapi filters *)

OPERATORS ==
  Obj(<< <<"_gte", Str("$gte")>>, <<"_lte", Str("$lte")>>, <<"_neq", Str("$ne")>>,
         <<"_q", Str("$contains")>> >>)

\* key.slice(-n)
SliceLast(key, n) == IF Len(key) <= n THEN key ELSE SubSeq(key, Len(key) - n + 1, Len(key))
\* key.slice(0, -n)
SliceOff(key, n) == IF Len(key) <= n THEN "" ELSE SubSeq(key, 1, Len(key) - n)

RECURSIVE raFilterToStrapi(_)
RECURSIVE FilterLoop(_, _, _)

\* the forEach body of raFilterToStrapi for one key, on the filters built so far
FilterKey(raFilter, key, filters) ==
  IF TypeofObject(Get(raFilter, key))
  THEN Set(filters, key, raFilterToStrapi(Get(raFilter, key)))
  ELSE
    LET operator == Get(OPERATORS, SliceLast(key, 4))
    IN  IF SliceLast(key, 2) = "_q"
        THEN Set(filters, SliceOff(key, 2), Obj(<< <<"$containsi", Get(raFilter, key)>> >>))
        ELSE IF key = "id"
        THEN Set(filters, "id", Obj(<< <<"$in", Get(raFilter, "id")>> >>))
        ELSE IF Truthy(operator)
        THEN Set(filters, SliceOff(key, 4), Obj(<< <<operator.s, Get(raFilter, key)>> >>))
        ELSE Set(filters, key, Obj(<< <<"$eq", Get(raFilter, key)>> >>))

FilterLoop(raFilter, keys, filters) ==
  IF keys = <<>> THEN filters
  ELSE FilterLoop(raFilter, Tail(keys), FilterKey(raFilter, keys[1], filters))

raFilterToStrapi(raFilter) ==
  IF ~Truthy(raFilter) THEN Null
  ELSE FilterLoop(raFilter, Keys(raFilter), Obj(<<>>))

----------------------------------------------------------------------------
(* react-admin records -> Strapi request bodies *)

\* the components list of raEmptyAttributesToStrapi
components == <<"stages">>
Includes(list, key) == \E i \in 1..Len(list) : list[i] = key

RECURSIVE EmptyAttributesLoop(_, _, _)
EmptyAttributesLoop(object, keys, newObject) ==
  IF keys = <<>> THEN newObject
  ELSE
    LET key == keys[1]
        newValue == IF Get(object, key) = Str("") THEN Null ELSE Get(object, key)
    IN  EmptyAttributesLoop(object, Tail(keys),
          IF Includes(components, key)
          THEN Set(newObject, key, Obj(<< <<"data", newValue>> >>))
          ELSE Set(newObject, key, newValue))

\* a faulty raEmptyAttributesToStrapi: every falsy value becomes null
raFalsyAttributesToStrapi(object) ==
  EmptyAttributesLoop(
    Obj([i \in 1..Len(Pairs(object)) |->
           <<Pairs(object)[i][1],
             IF Truthy(Pairs(object)[i][2]) THEN Pairs(object)[i][2] ELSE Str("")>>]),
    Keys(object), Obj(<<>>))

raEmptyAttributesToStrapi(object) == EmptyAttributesLoop(object, Keys(object), Obj(<<>>))

\* the multimedia test of separateMultimedia for one element of the record
IsMultimedia(element) ==
  \/ Truthy(Get(element, "rawFile"))
  \/ IsArray(element)
       /\ (Truthy(Get(First(element), "mime")) \/ Truthy(Get(First(element), "rawFile")))

RECURSIVE SeparateLoop(_, _, _)
\* the for-in loop of separateMultimedia; the two objects are built by spreads
SeparateLoop(pairs, data, multimedia) ==
  IF pairs = <<>> THEN [data |-> data, multimedia |-> multimedia]
  ELSE IF IsMultimedia(pairs[1][2])
       THEN SeparateLoop(Tail(pairs), data,
                         Spread(multimedia, Obj(<<pairs[1]>>)))
       ELSE SeparateLoop(Tail(pairs), Spread(data, Obj(<<pairs[1]>>)), multimedia)

separateMultimedia(object) ==
  LET both == SeparateLoop(Pairs(object), Obj(<<>>), Obj(<<>>))
  IN  [data |-> both.data,
       multimedia |-> IF Len(Keys(both.multimedia)) = 0 THEN Null ELSE both.multimedia]

RECURSIVE ToJson(_)
\* the value the text JSON.stringify(x) denotes: a property that is undefined
\* is left out, an element that is undefined is null, a File has no own property
ToJson(x) ==
  CASE x.t = "object" ->
         LET kept == SelectSeq(x.o, LAMBDA p : p[2] # Undef)
         IN  Obj([i \in 1..Len(kept) |-> <<kept[i][1], ToJson(kept[i][2])>>])
    [] x.t = "array" ->
         Arr([i \in 1..Len(x.a) |-> IF x.a[i] = Undef THEN Null ELSE ToJson(x.a[i])])
    [] x.t = "File" -> Obj(<<>>)
    [] OTHER -> x

\* JSON.stringify(x), as the JSON value its text denotes
JSONstringify(x) == [t |-> "JSON", j |-> ToJson(x)]

\* formData.append(name, value, filename)
Part(name, value, filename) == [name |-> name, value |-> value, filename |-> filename]
FormData(parts) == [t |-> "FormData", parts |-> parts]

RECURSIVE ElementLoop(_, _, _, _)
\* element.forEach: a raw file goes to the form, any other element's id to elementIds
ElementLoop(key, element, parts, elementIds) ==
  IF element = <<>> THEN [parts |-> parts, elementIds |-> elementIds]
  ELSE LET f == element[1]
       IN  IF IsFile(Get(f, "rawFile"))
           THEN ElementLoop(key, Tail(element),
                  Append(parts, Part("files." \o key, Get(f, "rawFile"), Get(f, "title"))),
                  elementIds)
           ELSE ElementLoop(key, Tail(element), parts, Append(elementIds, Get(f, "id")))

\* the body of the for-in loop of raToStrapiObj for one key of multimedia
MultimediaKey(key, element, data, parts) ==
  LET each == ElementLoop(key, element.a, parts, <<>>)
      data1 == IF IsArray(element) THEN Set(data, key, Arr(each.elementIds)) ELSE data
      parts1 == IF IsArray(element) THEN each.parts ELSE parts
      data2 == IF ~IsArray(element) /\ ~IsFile(Get(element, "rawFile")) /\ HasOwn(data1, key)
               THEN Set(data1, key, Arr(<<Get(element, "id")>>)) ELSE data1
      parts2 == IF ~IsArray(element) /\ IsFile(Get(element, "rawFile"))
                THEN Append(parts1, Part("files." \o key, Get(element, "rawFile"),
                                         Get(element, "title")))
                ELSE parts1
  IN  [data |-> data2, parts |-> parts2]

RECURSIVE MultimediaLoop(_, _, _)
MultimediaLoop(pairs, data, parts) ==
  IF pairs = <<>> THEN [data |-> data, parts |-> parts]
  ELSE LET one == MultimediaKey(pairs[1][1], pairs[1][2], data, parts)
       IN  MultimediaLoop(Tail(pairs), one.data, one.parts)

raToStrapiObj(params) ==
  LET separated == separateMultimedia(Get(params, "data"))
  IN  IF Truthy(separated.multimedia)
      THEN LET filled == MultimediaLoop(Pairs(separated.multimedia), separated.data, <<>>)
           IN  FormData(Append(filled.parts,
                               Part("data",
                                    JSONstringify(raEmptyAttributesToStrapi(filled.data)),
                                    Undef)))
      ELSE JSONstringify(Obj(<< <<"data", raEmptyAttributesToStrapi(separated.data)>> >>))

----------------------------------------------------------------------------
(* Backend responses the read path is given *)

MaxId == 2
MaxElems == 2

Ids == 1..MaxId
FieldNames == {"cover", "stages"}

\* all sequences over S of length at most n
RECURSIVE SeqsUpTo(_, _)
SeqsUpTo(S, n) ==
  IF n = 0 THEN {<<>>}
  ELSE LET shorter == SeqsUpTo(S, n - 1)
       IN  shorter \cup {Append(s, x) : s \in {q \in shorter : Len(q) = n - 1}, x \in S}

Data(x) == Obj(<< <<"data", x>> >>)

RelationItem(i) ==
  Obj(<< <<"id", Num(i)>>, <<"attributes", Obj(<< <<"name", Str("n")>> >>)>> >>)
RelationIdOnly(i) == Obj(<< <<"id", Num(i)>> >>)
MediaItem(i) ==
  Obj(<< <<"id", Num(i)>>,
         <<"attributes", Obj(<< <<"mime", Str("image/png")>>, <<"url", Str("/u.png")>> >>)>> >>)
\* a media item whose own attributes hold a populated relation
MediaItemDeep(i) ==
  Obj(<< <<"id", Num(i)>>,
         <<"attributes", Obj(<< <<"mime", Str("image/png")>>,
                                <<"related", Data(Arr(<<RelationIdOnly(i)>>))>> >>)>> >>)

Items == UNION {{RelationItem(i), RelationIdOnly(i), MediaItem(i), MediaItemDeep(i)} : i \in Ids}

Component(i) == Obj(<< <<"id", Num(i)>>, <<"title", Str("c")>> >>)
ComponentWithRelation(i) == Obj(<< <<"id", Num(i)>>, <<"author", Data(RelationItem(i))>> >>)
ComponentWithMedia(i) == Obj(<< <<"id", Num(i)>>, <<"icon", Data(MediaItem(i))>> >>)
Components ==
  UNION {{Component(i), ComponentWithRelation(i), ComponentWithMedia(i)} : i \in Ids}

Scalars == {Str("t"), Str(""), Num(0), Num(5), Bool(TRUE), Null}

AttributeValues ==
  Scalars
    \cup {Data(Null)}
    \cup {Data(x) : x \in Items}
    \cup {Data(Arr(s)) : s \in SeqsUpTo(Items, MaxElems)}
    \cup Components
    \cup {Arr(s) : s \in SeqsUpTo(Components, MaxElems)}

Envelope(i, s, f, a) ==
  Obj(<< <<"id", Num(i)>>, <<"attributes", Obj(<< <<"title", s>>, <<f, a>> >>)>> >>)

Envelopes ==
  {Envelope(i, Str("t"), f, a) : i \in Ids, f \in FieldNames, a \in AttributeValues}

\* the json of a single-record response, and of a list response
OneResponses == {Data(e) : e \in Envelopes}
ManyResponses ==
  {Obj(<< <<"data", Arr(s)>>, <<"meta", Obj(<< <<"total", Num(Len(s))>> >>)>> >>) :
     s \in {<<>>} \cup {<<e>> : e \in Envelopes}}

----------------------------------------------------------------------------
(* The provider: strapiRestProvider(apiUrl, httpClient) *)

POPULATE_ALL == "populate=*"

apiUrl == "http://api"
resource == "posts"

\* `${x}` in a template literal
Text(x) == IF x.t = "number" THEN ToStr(x.n) ELSE IF x.t = "string" THEN x.s ELSE x.t

\* qs.stringify(query, { encodeValuesOnly: true }): the query string of query
QsStringify(query) == [t |-> "qs", query |-> query]

\* httpClient(url, options): url is the text before the "?" and the parts of
\* the search joined by "&"
Request(method, path, search, body) ==
  [method |-> method, path |-> path, search |-> search, body |-> body]

NoBatch ==
  /\ inflight = <<>>
  /\ aggregate = [state |-> "idle", values |-> <<>>, remaining |-> 0]
  /\ server = {}

NoHeap ==
  /\ heap = <<>>
  /\ calls = <<>>

InitProvider ==
  /\ op = "none"
  /\ input = Undef
  /\ request = <<>>
  /\ response = Undef
  /\ output = Undef
  /\ NoBatch
  /\ NoHeap

getOneRequest(params) ==
  Request("GET", apiUrl \o "/" \o resource \o "/" \o Text(Get(params, "id")),
          <<POPULATE_ALL>>, Undef)

getOne ==
  /\ op = "none"
  /\ \E i \in Ids :
       /\ input' = Obj(<< <<"id", Num(i)>> >>)
       /\ request' = getOneRequest(input')
  /\ op' = "getOne"
  /\ UNCHANGED <<response, output, inflight, aggregate, server, heap, calls>>

\* ({ json }) => ({ data: strapiObjectToRa(json.data) })
getOneThen ==
  /\ op = "getOne"
  /\ \E json \in OneResponses :
       /\ response' = json
       /\ output' = Data(strapiObjectToRa(Get(json, "data")))
  /\ op' = "getOne.then"
  /\ UNCHANGED <<input, request, inflight, aggregate, server, heap, calls>>

getManyRequest(params) ==
  Request("GET", apiUrl \o "/" \o resource,
          <<QsStringify(Obj(<< <<"filters",
               Obj(<< <<"id", Obj(<< <<"$in", Get(params, "ids")>> >>)>> >>)>> >>))>>,
          Undef)

\* the id lists getMany is called with
ManyIds == {<<>>, <<Num(1)>>, <<Num(MaxId), Num(1)>>}

getMany ==
  /\ op = "none"
  /\ \E ids \in ManyIds :
       /\ input' = Obj(<< <<"ids", Arr(ids)>> >>)
       /\ request' = getManyRequest(input')
  /\ op' = "getMany"
  /\ UNCHANGED <<response, output, inflight, aggregate, server, heap, calls>>

\* ({ json }) => ({ data: strapiArrayToRa(json.data), total: json.meta.total })
getManyThen ==
  /\ op = "getMany"
  /\ \E json \in ManyResponses :
       /\ response' = json
       /\ output' = Obj(<< <<"data", strapiArrayToRa(Get(json, "data"))>>,
                           <<"total", Get(Get(json, "meta"), "total")>> >>)
  /\ op' = "getMany.then"
  /\ UNCHANGED <<input, request, inflight, aggregate, server, heap, calls>>

NextRead == getOne \/ getOneThen \/ getMany \/ getManyThen

SpecRead == InitProvider /\ [][NextRead]_vars

\* the envelopes a response carries, and the records the converter made of them
InputEnvelopes ==
  IF IsArray(Get(response, "data")) THEN Get(response, "data").a
  ELSE <<Get(response, "data")>>
OutputRecords ==
  IF IsArray(Get(output, "data")) THEN Get(output, "data").a ELSE <<Get(output, "data")>>

Flattened == op \in {"getOne.then", "getMany.then"}

RECURSIVE HasNesting(_)
\* x holds, at some depth, an object with a data or an attributes property
HasNesting(x) ==
  \/ IsObj(x) /\ (HasOwn(x, "data") \/ HasOwn(x, "attributes"))
  \/ (IsObj(x) \/ IsArray(x)) /\ \E i \in 1..Len(Pairs(x)) : HasNesting(Pairs(x)[i][2])

\* C1: the output of the Backend->Frontend converter holds no data/attributes
\* nesting at any depth.
C1_NoNesting == Flattened => ~HasNesting(Get(output, "data"))

\* the mime marker an element of a data array, or a single data object, carries
MimeOf(item) == Get(Get(item, "attributes"), "mime")

\* out is { id, ...attributes } of item: its id and its attributes as they are
IsIdPlusAttributes(out, item) ==
  /\ IsObj(out)
  /\ KeySet(out) = {"id"} \cup KeySet(Get(item, "attributes"))
  /\ Get(out, "id") = Get(item, "id")
  /\ \A k \in KeySet(Get(item, "attributes")) \ {"id"} :
       Get(out, k) = Get(Get(item, "attributes"), k)

\* out is the full nested object of a single media item: its id and its
\* attributes, the scalar ones as they are and the others flattened
IsFlattenedMedia(out, item) ==
  /\ IsObj(out)
  /\ KeySet(out) = {"id"} \cup KeySet(Get(item, "attributes"))
  /\ Get(out, "id") = Get(item, "id")
  /\ \A k \in KeySet(Get(item, "attributes")) \ {"id"} :
       IF IsScalar(Get(Get(item, "attributes"), k))
       THEN Get(out, k) = Get(Get(item, "attributes"), k)
       ELSE ~HasNesting(Get(out, k))

\* what C10 says of one attribute a and the value out it was flattened to
ClassifiedByMime(a, out) ==
  LET d == Get(a, "data")
  IN  /\ IsArray(d) /\ Truthy(MimeOf(First(d))) =>
           /\ IsArray(out) /\ Len(out.a) = Len(d.a)
           /\ \A i \in 1..Len(d.a) : IsIdPlusAttributes(out.a[i], d.a[i])
      /\ IsArray(d) /\ ~Truthy(MimeOf(First(d))) =>
           out = Arr([i \in 1..Len(d.a) |-> Get(d.a[i], "id")])
      /\ IsObj(d) /\ Truthy(Get(d, "id")) /\ ~Truthy(MimeOf(d)) => out = Get(d, "id")
      /\ IsObj(d) /\ Truthy(Get(d, "id")) /\ Truthy(MimeOf(d)) => IsFlattenedMedia(out, d)

\* C10: a data array flattens to { id, ...attributes } objects when its first
\* element carries mime and to bare ids otherwise, whatever the other elements
\* carry; a single data object with an id flattens to the bare id without mime
\* and to the full nested object with it.
C10_ClassifiedByMime ==
  Flattened =>
    \A j \in 1..Len(InputEnvelopes) :
      \A k \in KeySet(Get(InputEnvelopes[j], "attributes")) :
        ClassifiedByMime(Get(Get(InputEnvelopes[j], "attributes"), k),
                         Get(OutputRecords[j], k))

\* a collection of a media item followed by a plain relation, and one the other
\* way round, have been flattened
MixedCollection(first, second) ==
  \E j \in 1..Len(InputEnvelopes) :
    \E k \in KeySet(Get(InputEnvelopes[j], "attributes")) :
      LET d == Get(Get(Get(InputEnvelopes[j], "attributes"), k), "data")
      IN  /\ IsArray(d) /\ Len(d.a) = 2
          /\ Truthy(MimeOf(d.a[1])) = first
          /\ Truthy(MimeOf(d.a[2])) = second
          /\ IsArray(Get(OutputRecords[j], k))
          /\ Len(Get(OutputRecords[j], k).a) = 2

C10_Witness == op = "getOne.then" /\ MixedCollection(FALSE, TRUE)

MaxFilterKeys == 2

FilterKeys ==
  {"id", "title", "title_q", "price_gte", "price_lte", "price_neq", "author", "_q"}
IdList == Arr([i \in 1..MaxId |-> Num(i)])
FilterValues == {Str("cat"), Str(""), Num(5), Bool(FALSE), IdList}

\* the filters of at most MaxFilterKeys keys, in every order of their keys
Filters ==
  {Obj(s) : s \in {q \in SeqsUpTo(FilterKeys \X FilterValues, MaxFilterKeys) :
                     \A i, j \in 1..Len(q) : i # j => q[i][1] # q[j][1]}}

InitFilter ==
  /\ op = "none"
  /\ input \in Filters \cup {Undef}
  /\ request = <<>>
  /\ response = Undef
  /\ output = Undef
  /\ NoBatch
  /\ NoHeap

\* filters: raFilterToStrapi(params.filter)
translateFilter ==
  /\ op = "none"
  /\ op' = "raFilterToStrapi"
  /\ output' = raFilterToStrapi(input)
  /\ UNCHANGED <<input, request, response, inflight, aggregate, server, heap, calls>>

NextFilter == translateFilter

SpecFilter == InitFilter /\ [][NextFilter]_vars

EndsWith(key, suffix) == Len(key) >= Len(suffix) /\ SliceLast(key, Len(suffix)) = suffix

\* what C2 says the translation of one key and its value is: the field and
\* its operator object
ExpectedField(key) ==
  IF EndsWith(key, "_q") THEN SliceOff(key, 2)
  ELSE IF key = "id" THEN "id"
  ELSE IF EndsWith(key, "_gte") \/ EndsWith(key, "_lte") \/ EndsWith(key, "_neq")
  THEN SliceOff(key, 4)
  ELSE key
ExpectedOperator(key) ==
  IF EndsWith(key, "_q") THEN "$containsi"
  ELSE IF key = "id" THEN "$in"
  ELSE IF EndsWith(key, "_gte") THEN "$gte"
  ELSE IF EndsWith(key, "_lte") THEN "$lte"
  ELSE IF EndsWith(key, "_neq") THEN "$ne"
  ELSE "$eq"

\* C2: every key of a filter yields its field with the operator of its suffix
\* against the key's value, the key id yields $in whatever its value, any other
\* key yields $eq, and an absent filter yields null.
C2_FilterTranslated ==
  op = "raFilterToStrapi" =>
    IF input = Undef THEN output = Null
    ELSE \A key \in KeySet(input) :
           Get(output, ExpectedField(key))
             = Obj(<< <<ExpectedOperator(key), Get(input, key)>> >>)

----------------------------------------------------------------------------
(* The write path: update and create *)

MaxFiles == 2

\* a file the user picked in a form, not uploaded yet
PendingFile == Obj(<< <<"rawFile", File("a.png")>>, <<"title", Str("a.png")>> >>)
\* a media item as the read path hands it to the form
PersistedMedia(i) ==
  Obj(<< <<"id", Num(i)>>, <<"mime", Str("image/png")>>, <<"url", Str("/u.png")>> >>)

WriteValues ==
  {Str("t"), Str(""), PendingFile}
    \cup {PersistedMedia(i) : i \in Ids}
    \cup {Arr(s) : s \in SeqsUpTo({PendingFile, PersistedMedia(1)}, MaxFiles) \ {<<>>}}

\* the records of a create form
FormRecords ==
  {Obj(<< <<"title", s>>, <<"cover", w1>>, <<f, w2>> >>) :
     s \in {Str("t"), Str("")}, w1 \in WriteValues, f \in {"gallery", "avatar"},
     w2 \in WriteValues}

WriteResponses == {Data(Envelope(i, Str("t"), "cover", Data(Null))) : i \in Ids}

updateRequest(params) ==
  Request("PUT", apiUrl \o "/" \o resource \o "/" \o Text(Get(params, "id")), <<>>,
          raToStrapiObj(params))

\* the edit form of the record getOne returned is submitted, as it is or with
\* a file picked for its attachment field
update ==
  /\ op = "getOne.then"
  /\ \E picked \in BOOLEAN :
       LET record == Get(output, "data")
           data == IF picked THEN Set(record, "attachment", PendingFile) ELSE record
       IN  /\ input' = Obj(<< <<"id", Get(record, "id")>>, <<"data", data>> >>)
           /\ request' = updateRequest(input')
  /\ op' = "update"
  /\ UNCHANGED <<response, output, inflight, aggregate, server, heap, calls>>

\* ({ json }) => ({ data: strapiObjectToRa(json.data) })
updateThen ==
  /\ op = "update"
  /\ \E json \in WriteResponses :
       /\ response' = json
       /\ output' = Data(strapiObjectToRa(Get(json, "data")))
  /\ op' = "update.then"
  /\ UNCHANGED <<input, request, inflight, aggregate, server, heap, calls>>

createRequest(params) ==
  Request("POST", apiUrl \o "/" \o resource, <<>>, raToStrapiObj(params))

create ==
  /\ op = "none"
  /\ \E record \in FormRecords :
       /\ input' = Data(record)
       /\ request' = createRequest(input')
  /\ op' = "create"
  /\ UNCHANGED <<response, output, inflight, aggregate, server, heap, calls>>

\* ({ json }) => ({ data: strapiObjectToRa(json.data) })
createThen ==
  /\ op = "create"
  /\ \E json \in WriteResponses :
       /\ response' = json
       /\ output' = Data(strapiObjectToRa(Get(json, "data")))
  /\ op' = "create.then"
  /\ UNCHANGED <<input, request, inflight, aggregate, server, heap, calls>>

NextWrite == getOne \/ getOneThen \/ update \/ updateThen \/ create \/ createThen

SpecWrite == InitProvider /\ [][NextWrite]_vars

\* a write request has been issued and not answered yet
Written == op \in {"update", "create"}
Multipart == Written /\ request.body.t = "FormData"

\* the parts of a multipart body under a name
PartsNamed(name) == SelectSeq(request.body.parts, LAMBDA part : part.name = name)

\* the object sent as data: the data property of a JSON body, the data part of
\* a multipart one
SentData ==
  IF request.body.t = "FormData" THEN PartsNamed("data")[1].value.j
  ELSE Get(request.body.j, "data")

IsPending(x) == IsFile(Get(x, "rawFile"))
IsPersisted(x) == IsObj(x) /\ ~HasOwn(x, "rawFile") /\ Truthy(Get(x, "mime"))
IsIdReference(x) == x.t = "number"
IsIdReferences(x) ==
  \/ IsIdReference(x)
  \/ IsArray(x) /\ Len(x.a) > 0 /\ \A i \in 1..Len(x.a) : IsIdReference(x.a[i])

\* what C3 says of one field of the record and its value
MultimediaSent(key, value) ==
  /\ IsPending(value) =>
       /\ Len(PartsNamed("files." \o key)) = 1
       /\ ~HasOwn(SentData, key)
  /\ IsArray(value) /\ (\E i \in 1..Len(value.a) : IsPending(value.a[i])) =>
       /\ Len(PartsNamed("files." \o key)) = Len(SelectSeq(value.a, IsPending))
       /\ Get(SentData, key)
            = Arr([i \in 1..Len(SelectSeq(value.a, IsPersisted)) |->
                     Get(SelectSeq(value.a, IsPersisted)[i], "id")])
  /\ IsPersisted(value) => IsIdReferences(Get(SentData, key))
  /\ IsArray(value) /\ Len(value.a) > 0 /\ (\A i \in 1..Len(value.a) : IsPersisted(value.a[i])) =>
       /\ IsIdReferences(Get(SentData, key))
       /\ Len(Get(SentData, key).a) = Len(value.a)

\* C3: in a multipart write, a field with a pending local file is sent as the
\* file part files.<field> and not as an id reference in the data part, and
\* every field of already-persisted media, single or array, is sent in the data
\* part as plain id references.
C3_MultimediaSent ==
  Multipart =>
    \A key \in KeySet(Get(input, "data")) :
      MultimediaSent(key, Get(Get(input, "data"), key))

\* C6: a relation whose backend value is {data: null} is flattened to the empty
\* string under any field name, and a field whose frontend value is the empty
\* string is written as null in the data payload.
C6_NullRelation ==
  /\ Flattened =>
       \A j \in 1..Len(InputEnvelopes) :
         \A key \in KeySet(Get(InputEnvelopes[j], "attributes")) :
           Get(Get(InputEnvelopes[j], "attributes"), key) = Data(Null) =>
             Get(OutputRecords[j], key) = Str("")
  /\ Written =>
       \A key \in KeySet(Get(input, "data")) :
         Get(Get(input, "data"), key) = Str("") => Get(SentData, key) = Null

\* a field of an envelope that holds media: a single item or a collection
HoldsMedia(a) ==
  \/ Truthy(MimeOf(Get(a, "data")))
  \/ IsArray(Get(a, "data"))
       /\ \E i \in 1..Len(Get(a, "data").a) : Truthy(MimeOf(Get(a, "data").a[i]))

\* the envelope getOne was answered with is written back unedited
RoundTrip ==
  /\ op = "update"
  /\ Get(input, "data") = Get(output, "data")
  /\ \A key \in KeySet(Get(Get(response, "data"), "attributes")) :
       ~HoldsMedia(Get(Get(Get(response, "data"), "attributes"), key))

----------------------------------------------------------------------------
(* Lists: getList and getManyReference *)

MaxPage == 2

\* a faulty getListQuery: the page sent 0-indexed
getListQueryZeroBased(params) ==
  Obj(<< <<"sort", Arr(<<Str(Text(Get(Get(params, "sort"), "field")) \o ":"
                             \o Text(Get(Get(params, "sort"), "order")))>>)>>,
         <<"pagination", Obj(<< <<"page", Num(Get(Get(params, "pagination"), "page").n - 1)>>,
                                <<"pageSize", Get(Get(params, "pagination"), "perPage")>> >>)>>,
         <<"filters", raFilterToStrapi(Get(params, "filter"))>> >>)

\* the query object getList hands to qs.stringify
getListQuery(params) ==
  Obj(<< <<"sort", Arr(<<Str(Text(Get(Get(params, "sort"), "field")) \o ":"
                             \o Text(Get(Get(params, "sort"), "order")))>>)>>,
         <<"pagination", Obj(<< <<"page", Get(Get(params, "pagination"), "page")>>,
                                <<"pageSize", Get(Get(params, "pagination"), "perPage")>> >>)>>,
         <<"filters", raFilterToStrapi(Get(params, "filter"))>> >>)

getListRequest(params) ==
  Request("GET", apiUrl \o "/" \o resource,
          <<POPULATE_ALL, QsStringify(getListQuery(params))>>, Obj(<<>>))

RECURSIVE SplitJoin(_)
\* target.split(".").join("][")
SplitJoin(target) ==
  IF target = "" THEN ""
  ELSE (IF SubSeq(target, 1, 1) = "." THEN "][" ELSE SubSeq(target, 1, 1))
         \o SplitJoin(SubSeq(target, 2, Len(target)))

\* the query object getManyReference hands to qs.stringify
getManyReferenceQuery(params) ==
  Obj(<< <<"sort", Arr(<<Str(Text(Get(Get(params, "sort"), "field")) \o ":"
                             \o Text(Get(Get(params, "sort"), "order")))>>)>>,
         <<"pagination", Obj(<< <<"page", Get(Get(params, "pagination"), "page")>>,
                                <<"pageSize", Get(Get(params, "pagination"), "perPage")>> >>)>>,
         <<"filters",
           raFilterToStrapi(
             Spread(Spread(Obj(<<>>), Get(params, "filter")),
                    Obj(<< <<SplitJoin(Get(params, "target").s), Get(params, "id")>> >>)))>> >>)

getManyReferenceRequest(params) ==
  Request("GET", apiUrl \o "/" \o resource,
          <<POPULATE_ALL, QsStringify(getManyReferenceQuery(params))>>, Obj(<<>>))

\* ({ json }) => ({ data: strapiArrayToRa(json.data),
\*                  total: json.meta.pagination.total })
listResult(json) ==
  Obj(<< <<"data", strapiArrayToRa(Get(json, "data"))>>,
         <<"total", Get(Get(Get(json, "meta"), "pagination"), "total")>> >>)

ListFilters ==
  {Obj(<<>>), Obj(<< <<"title_q", Str("cat")>> >>), Obj(<< <<"price_gte", Num(5)>> >>),
   Obj(<< <<"published", Bool(TRUE)>>, <<"id", IdList>> >>)}

ListParams ==
  {Obj(<< <<"pagination", Obj(<< <<"page", Num(page)>>, <<"perPage", Num(perPage)>> >>)>>,
          <<"sort", Obj(<< <<"field", Str(field)>>, <<"order", Str(order)>> >>)>>,
          <<"filter", filter>> >>) :
     page \in 1..MaxPage, perPage \in {10, 25}, field \in {"title", "id"},
     order \in {"ASC", "DESC"}, filter \in ListFilters}

ReferenceParams ==
  {Spread(params, Obj(<< <<"target", Str(target)>>, <<"id", Num(i)>> >>)) :
     params \in ListParams, target \in {"author", "author.id"}, i \in Ids}

ListResponse(s, total) ==
  Obj(<< <<"data", Arr(s)>>,
         <<"meta", Obj(<< <<"pagination", Obj(<< <<"total", Num(total)>> >>)>> >>)>> >>)

ListResponses ==
  UNION {{ListResponse(s, Len(s)), ListResponse(s, Len(s) + 25)} :
           s \in {<<>>, <<Envelope(1, Str("t"), "cover", Data(RelationItem(1)))>>,
                  <<Envelope(1, Str("t"), "cover", Data(Null)),
                    Envelope(MaxId, Str(""), "stages", Data(Arr(<<MediaItem(1)>>)))>>}}

getList ==
  /\ op = "none"
  /\ \E params \in ListParams :
       /\ input' = params
       /\ request' = getListRequest(params)
  /\ op' = "getList"
  /\ UNCHANGED <<response, output, inflight, aggregate, server, heap, calls>>

getListThen ==
  /\ op = "getList"
  /\ \E json \in ListResponses :
       /\ response' = json
       /\ output' = listResult(json)
  /\ op' = "getList.then"
  /\ UNCHANGED <<input, request, inflight, aggregate, server, heap, calls>>

getManyReference ==
  /\ op = "none"
  /\ \E params \in ReferenceParams :
       /\ input' = params
       /\ request' = getManyReferenceRequest(params)
  /\ op' = "getManyReference"
  /\ UNCHANGED <<response, output, inflight, aggregate, server, heap, calls>>

getManyReferenceThen ==
  /\ op = "getManyReference"
  /\ \E json \in ListResponses :
       /\ response' = json
       /\ output' = listResult(json)
  /\ op' = "getManyReference.then"
  /\ UNCHANGED <<input, request, inflight, aggregate, server, heap, calls>>

NextList == getList \/ getListThen \/ getManyReference \/ getManyReferenceThen

SpecList == InitProvider /\ [][NextList]_vars

Listed == op \in {"getList", "getList.then", "getManyReference", "getManyReference.then"}
ListAnswered == op \in {"getList.then", "getManyReference.then"}

\* the query object of the request issued
SentQuery == request.search[2].query

\* the filters of the request are the translation of the filter of the call,
\* and for getManyReference of the target's entry too
CarriesFilter ==
  LET translated == raFilterToStrapi(Get(input, "filter"))
      sent == Get(SentQuery, "filters")
  IN  IF HasOwn(input, "target")
      THEN /\ \A key \in KeySet(translated) : Get(sent, key) = Get(translated, key)
           /\ Get(sent, SplitJoin(Get(input, "target").s))
                = Obj(<< <<"$eq", Get(input, "id")>> >>)
           /\ KeySet(sent) = KeySet(translated) \cup {SplitJoin(Get(input, "target").s)}
      ELSE sent = translated

\* getList("posts", page 2, perPage 10, sort title ASC, filter {title_q: "cat"})
ExampleParams ==
  Obj(<< <<"pagination", Obj(<< <<"page", Num(2)>>, <<"perPage", Num(10)>> >>)>>,
         <<"sort", Obj(<< <<"field", Str("title")>>, <<"order", Str("ASC")>> >>)>>,
         <<"filter", Obj(<< <<"title_q", Str("cat")>> >>)>> >>)

\* populate=*&sort[0]=title:ASC&pagination[page]=2&pagination[pageSize]=10
\*   &filters[title][$containsi]=cat, as the object qs.stringify is given
ExampleQuery ==
  Obj(<< <<"sort", Arr(<<Str("title:ASC")>>)>>,
         <<"pagination", Obj(<< <<"page", Num(2)>>, <<"pageSize", Num(10)>> >>)>>,
         <<"filters", Obj(<< <<"title", Obj(<< <<"$containsi", Str("cat")>> >>)>> >>)>> >>)

\* C8: getList and getManyReference issue one GET to <apiUrl>/<resource> with
\* populate=*, the sort as one field:order token, (page, perPage) unchanged as
\* pagination page and pageSize, and the translated filter; on success they
\* return the flattened json.data and json.meta.pagination.total.
C8_ListRequest ==
  /\ Listed =>
       /\ request.method = "GET"
       /\ request.path = "http://api/posts"
       /\ Len(request.search) = 2
       /\ request.search[1] = "populate=*"
       /\ Get(SentQuery, "sort")
            = Arr(<<Str(Get(Get(input, "sort"), "field").s \o ":"
                          \o Get(Get(input, "sort"), "order").s)>>)
       /\ Get(SentQuery, "pagination")
            = Obj(<< <<"page", Get(Get(input, "pagination"), "page")>>,
                     <<"pageSize", Get(Get(input, "pagination"), "perPage")>> >>)
       /\ Get(Get(input, "pagination"), "page").n >= 1
       /\ CarriesFilter
       /\ input = ExampleParams => SentQuery = ExampleQuery
  /\ ListAnswered =>
       /\ KeySet(output) = {"data", "total"}
       /\ Get(output, "total") = Get(Get(Get(response, "meta"), "pagination"), "total")
       /\ IsArray(Get(output, "data"))
       /\ Len(Get(output, "data").a) = Len(Get(response, "data").a)
       /\ \A j \in 1..Len(Get(response, "data").a) :
            /\ Get(Get(output, "data").a[j], "id") = Get(Get(response, "data").a[j], "id")
            /\ ~HasNesting(Get(output, "data").a[j])

\* the example call has been answered
C8_Witness ==
  /\ op = "getList.then"
  /\ input = ExampleParams
  /\ SentQuery = ExampleQuery
  /\ Len(Get(output, "data").a) = 2

----------------------------------------------------------------------------
(* Batches: updateMany and deleteMany *)

MaxBatch == 3

\* Promise.all(promises) of n promises: pending with n values to come, or
\* fulfilled at once with no value when n = 0
PromiseAll(n) ==
  [state |-> IF n = 0 THEN "fulfilled" ELSE "pending",
   values |-> [i \in 1..n |-> Undef],
   remaining |-> n]

\* a faulty PromiseAllResolve: a value is stored where the next free place is
PromiseAllPush(all, index, value) ==
  LET place == Len(all.values) - all.remaining + 1
      values == [all.values EXCEPT ![place] = value]
  IN  IF all.state # "pending" THEN [all EXCEPT !.values = values]
      ELSE [state |-> IF all.remaining = 1 THEN "fulfilled" ELSE "pending",
            values |-> values,
            remaining |-> all.remaining - 1]

\* the promise at index is fulfilled with value: Promise.all keeps it at its
\* index and is fulfilled with the values once none remains
PromiseAllResolve(all, index, value) ==
  LET values == [all.values EXCEPT ![index] = value]
  IN  IF all.state # "pending" THEN [all EXCEPT !.values = values]
      ELSE [state |-> IF all.remaining = 1 THEN "fulfilled" ELSE "pending",
            values |-> values,
            remaining |-> all.remaining - 1]

\* a faulty PromiseAllReject: a rejection is waited out like a value
PromiseAllSettle(all) ==
  IF all.state # "pending" THEN all
  ELSE [all EXCEPT !.state = IF all.remaining = 1 THEN "fulfilled" ELSE "pending",
                   !.remaining = all.remaining - 1]

\* a promise is rejected: Promise.all is rejected, unless settled already
PromiseAllReject(all) ==
  IF all.state # "pending" THEN all ELSE [all EXCEPT !.state = "rejected"]

\* (responses) => ({ data: responses.map(({ json }) => json.data.id) })
batchResult(responses) ==
  Obj(<< <<"data",
           Arr([i \in 1..Len(responses) |-> Get(Get(Get(responses[i], "json"), "data"), "id")])>> >>)

updateManyRequest(id, params) ==
  Request("PUT", apiUrl \o "/" \o resource \o "/" \o Text(id), <<>>,
          JSONstringify(Obj(<< <<"data", Get(params, "data")>> >>)))

deleteManyRequest(id) ==
  [method |-> "DELETE", path |-> apiUrl \o "/" \o resource \o "/" \o Text(id),
   search |-> <<>>, body |-> Undef, headers |-> << <<"Content-Type", "text/plain">> >>]

BatchParams ==
  {Obj(<< <<"ids", Arr(ids)>>, <<"data", Obj(<< <<"title", Str("t")>> >>)>> >>) :
     ids \in SeqsUpTo({Num(i) : i \in Ids}, MaxBatch)}

Pending(n) == [i \in 1..n |-> [state |-> "pending", value |-> Undef, settled |-> 0]]

updateMany ==
  /\ op = "none"
  /\ \E params \in BatchParams :
       LET ids == Get(params, "ids").a
       IN  /\ input' = params
           /\ request' = [i \in 1..Len(ids) |-> updateManyRequest(ids[i], params)]
           /\ inflight' = Pending(Len(ids))
           /\ aggregate' = PromiseAll(Len(ids))
           /\ output' = IF Len(ids) = 0 THEN batchResult(<<>>) ELSE Undef
  /\ op' = "updateMany"
  /\ UNCHANGED <<response, server, heap, calls>>

deleteMany ==
  /\ op = "none"
  /\ \E params \in BatchParams :
       LET ids == Get(params, "ids").a
       IN  /\ input' = Obj(<< <<"ids", Get(params, "ids")>> >>)
           /\ request' = [i \in 1..Len(ids) |-> deleteManyRequest(ids[i])]
           /\ inflight' = Pending(Len(ids))
           /\ aggregate' = PromiseAll(Len(ids))
           /\ output' = IF Len(ids) = 0 THEN batchResult(<<>>) ELSE Undef
  /\ op' = "deleteMany"
  /\ UNCHANGED <<response, server, heap, calls>>

Settled == Cardinality({i \in 1..Len(inflight) : inflight[i].state # "pending"})

\* the backend applies the sub-request at a position and answers with the
\* record; httpClient fulfils its promise, and Promise.all and the .then
\* callback run before anything else does
subRequestFulfilled ==
  /\ op \in {"updateMany", "deleteMany"}
  /\ \E i \in 1..Len(inflight) :
       /\ inflight[i].state = "pending"
       /\ LET json == Data(Obj(<< <<"id", Get(input, "ids").a[i]>>,
                                  <<"attributes", Obj(<<>>)>> >>))
              value == Obj(<< <<"status", Num(200)>>, <<"json", json>> >>)
              all == PromiseAllResolve(aggregate, i, value)
          IN  /\ response' = json
              /\ inflight' = [inflight EXCEPT ![i] =
                                [state |-> "fulfilled", value |-> value,
                                 settled |-> Settled + 1]]
              /\ server' = server \cup {i}
              /\ aggregate' = all
              /\ output' = IF aggregate.state = "pending" /\ all.state = "fulfilled"
                           THEN batchResult(all.values) ELSE output
  /\ UNCHANGED <<op, input, request, heap, calls>>

\* the backend refuses the sub-request at a position; httpClient rejects its
\* promise
subRequestRejected ==
  /\ op \in {"updateMany", "deleteMany"}
  /\ \E i \in 1..Len(inflight) :
       /\ inflight[i].state = "pending"
       /\ inflight' = [inflight EXCEPT ![i] =
                         [state |-> "rejected", value |-> Undef, settled |-> Settled + 1]]
       /\ aggregate' = PromiseAllReject(aggregate)
  /\ UNCHANGED <<op, input, request, response, output, server, heap, calls>>

NextBatch == updateMany \/ deleteMany \/ subRequestFulfilled \/ subRequestRejected

SpecBatch == InitProvider /\ [][NextBatch]_vars

Batched == op \in {"updateMany", "deleteMany"}
BatchIds == Get(input, "ids").a

\* C4: a batch issues exactly one request per id of params.ids, all of them
\* with the call; its promise is fulfilled only if every sub-request was, and
\* once a sub-request is rejected it is rejected with no result list, while
\* what the backend applied for the sub-requests that succeeded stays applied.
C4_AllOrNothing ==
  Batched =>
    /\ Len(request) = Len(BatchIds)
    /\ Len(inflight) = Len(BatchIds)
    /\ \A i \in 1..Len(BatchIds) :
         /\ request[i].path = "http://api/posts/" \o ToStr(BatchIds[i].n)
         /\ request[i].method = (IF op = "updateMany" THEN "PUT" ELSE "DELETE")
         /\ inflight[i].state = "fulfilled" => i \in server
    /\ aggregate.state = "fulfilled" =>
         \A i \in 1..Len(inflight) : inflight[i].state = "fulfilled"
    /\ (\A i \in 1..Len(inflight) : inflight[i].state = "fulfilled") =>
         aggregate.state = "fulfilled" /\ output # Undef
    /\ (\E i \in 1..Len(inflight) : inflight[i].state = "rejected") =>
         aggregate.state = "rejected" /\ output = Undef

\* a sub-request was rejected after another one had succeeded
C4_Witness ==
  /\ Batched
  /\ aggregate.state = "rejected"
  /\ \E i, j \in 1..Len(inflight) :
       /\ inflight[i].state = "fulfilled" /\ i \in server
       /\ inflight[j].state = "rejected"
       /\ inflight[i].settled < inflight[j].settled

\* C5: the data list of a batch that succeeded holds, at every position i, the
\* id of the response to the request issued for params.ids[i], in whatever
\* order the sub-requests completed.
C5_InputOrder ==
  Batched /\ aggregate.state = "fulfilled" =>
    /\ IsArray(Get(output, "data"))
    /\ Len(Get(output, "data").a) = Len(BatchIds)
    /\ \A i \in 1..Len(BatchIds) :
         /\ Get(output, "data").a[i]
              = Get(Get(Get(inflight[i].value, "json"), "data"), "id")
         /\ Get(output, "data").a[i] = BatchIds[i]

\* a batch of different ids succeeded with a later sub-request completing first
C5_Witness ==
  /\ Batched
  /\ aggregate.state = "fulfilled"
  /\ \E i, j \in 1..Len(inflight) :
       /\ i < j
       /\ BatchIds[i] # BatchIds[j]
       /\ inflight[i].settled > inflight[j].settled
       /\ Get(output, "data").a[i] = BatchIds[i]

----------------------------------------------------------------------------
(* Two callers at once, writing one record object *)

\* a faulty DataObject: data is the record itself, worked on in place
DataObjectInPlace(object) == object

\* the object separateMultimedia builds its data in, for the record object it
\* is given: a new one (let data = {}, and a new spread for every key)
DataObject(object) == "new"

\* the data object of raToStrapiObj once its for-in loop has run
LoopedData(record) ==
  LET separated == separateMultimedia(record)
  IN  IF Truthy(separated.multimedia)
      THEN MultimediaLoop(Pairs(separated.multimedia), separated.data, <<>>).data
      ELSE separated.data

\* the caller's objects after raToStrapiObj ran on the record object named
\* object: the data[key] = ... assignments reach the object data is
HeapAfterWrite(h, object) ==
  [o \in DOMAIN h |-> IF o = DataObject(object) THEN LoopedData(h[object]) ELSE h[o]]

Callers == {1, 2}
MethodOf(c) == IF c = 1 THEN "update" ELSE "create"

writeRequest(method, params) ==
  IF method = "update" THEN updateRequest(params) ELSE createRequest(params)

\* the params a caller passes: its data is the record object the callers share
ParamsOf(record) == Obj(<< <<"id", Num(1)>>, <<"data", record>> >>)

Events == Cardinality({c \in Callers : calls[c].state # "idle"})
            + Cardinality({c \in Callers : calls[c].state = "done"})

InitShared ==
  /\ op = "none"
  /\ input \in FormRecords
  /\ request = <<>>
  /\ response = Undef
  /\ output = Undef
  /\ NoBatch
  /\ heap = [o \in {"record"} |-> input]
  /\ calls = [c \in Callers |->
                [state |-> "idle", request |-> <<>>, json |-> Undef, result |-> Undef,
                 issued |-> 0, answered |-> 0]]

\* a caller calls update or create with the shared record
callWrite ==
  \E c \in Callers :
    /\ calls[c].state = "idle"
    /\ calls' = [calls EXCEPT ![c].state = "waiting",
                              ![c].request = writeRequest(MethodOf(c), ParamsOf(heap["record"])),
                              ![c].issued = Events + 1]
    /\ heap' = HeapAfterWrite(heap, "record")
    /\ UNCHANGED <<op, input, request, response, output, inflight, aggregate, server>>

\* the backend answers a caller's request and the .then callback runs
answerWrite ==
  \E c \in Callers, json \in WriteResponses :
    /\ calls[c].state = "waiting"
    /\ calls' = [calls EXCEPT ![c].state = "done",
                              ![c].json = json,
                              ![c].result = Data(strapiObjectToRa(Get(json, "data"))),
                              ![c].answered = Events + 1]
    /\ UNCHANGED <<op, input, request, response, output, inflight, aggregate, server, heap>>

NextShared == callWrite \/ answerWrite

SpecShared == InitShared /\ [][NextShared]_vars

=============================================================================
